---- MODULE Spec2Model ----
(***************************************************************************)
(* Model of the admission controller (src/src/limiter.rs), its resource    *)
(* arithmetic (src/src/resources/resource_profile.rs), the classifier      *)
(* (src/src/resources/rules.rs), the supervisor's handlers                 *)
(* (src/src/tracer.rs), its event loop (src/src/main.rs) and the attach    *)
(* phase (src/src/daemon.rs).                                              *)
(*                                                                         *)
(* The limiter is single-threaded: every public call (on_exec, on_exit)    *)
(* runs to completion, so each call is one action.  ptrace::cont, the only *)
(* call that leaves the limiter, succeeds or fails per pid; the set of     *)
(* pids for which it fails is an input of the action.                      *)
(***************************************************************************)
EXTENDS Integers, Sequences, FiniteSets, TLC

\* Number of process ids the environment uses.
MaxPid == 3

Pids == 1..MaxPid

\* Total budgets a limiter is constructed with (Limiter::new(total)).
Totals == { [cpus |-> 1, mem_gb |-> 1], [cpus |-> 2, mem_gb |-> 2] }

\* argv[0] values the environment execs; "bash" is not in the rules table.
ProgNames == { "cc", "rustc", "bash" }

\* An argv is its (possibly missing) first element: only argv[0] is read.
Argvs == { <<>> } \cup { <<n>> : n \in ProgNames }

----------------------------------------------------------------------------
(* ResourceProfile: u32 components.                                        *)

new(cpus, mem_gb) == [cpus |-> cpus, mem_gb |-> mem_gb]

\* self.cpus <= available.cpus && self.mem_gb <= available.mem_gb
has_free_resources(self, available) ==
    self.cpus <= available.cpus /\ self.mem_gb <= available.mem_gb

\* u32::saturating_sub
saturating_sub(a, b) == IF a >= b THEN a - b ELSE 0

\* impl Add: u32 addition (no reachable sum leaves the u32 range here).
Add(self, other) ==
    [cpus |-> self.cpus + other.cpus, mem_gb |-> self.mem_gb + other.mem_gb]

\* impl Sub: component-wise saturating subtraction.
Sub(self, other) ==
    [cpus   |-> saturating_sub(self.cpus, other.cpus),
     mem_gb |-> saturating_sub(self.mem_gb, other.mem_gb)]

----------------------------------------------------------------------------
(* Classifier.  Option<ResourceProfile> is <<>> (None) or <<p>> (Some(p)). *)

None == <<>>

Some(p) == <<p>>

profile_for(args) ==
    IF args = <<>> THEN None
    ELSE LET name == args[1] IN
         CASE name \in {"cc", "gcc", "g++", "c++", "clang", "clang++"} -> Some(new(1, 1))
           [] name = "rustc" -> Some(new(4, 4))
           [] name \in {"llc", "lld", "ld.lld"} -> Some(new(1, 2))
           [] name \in {"ld", "gold"} -> Some(new(1, 1))
           [] name = "go" -> Some(new(1, 1))
           [] name = "ghc" -> Some(new(1, 4))
           [] name \in {"java", "javac", "scalac", "kotlinc"} -> Some(new(1, 2))
           [] name \in {"nvcc", "ptxas", "cicc", "cudafe++", "fatbinary"} -> Some(new(1, 4))
           [] OTHER -> None

----------------------------------------------------------------------------
(* Limiter.  A limiter value L is a record                                 *)
(*   total, free : ResourceProfile                                         *)
(*   active      : function from the active pids to ActiveEntry            *)
(*   paused      : sequence of PausedEntry, head = front of the VecDeque   *)
(*   conts       : the ptrace::cont calls made so far in the current call  *)

ActiveEntry(name, profile) == [name |-> name, profile |-> profile]

PausedEntry(pid, name, profile) == [pid |-> pid, name |-> name, profile |-> profile]

\* HashMap::insert: adds the key or overwrites its value.
MapInsert(m, k, v) == [x \in (DOMAIN m) \cup {k} |-> IF x = k THEN v ELSE m[x]]

\* HashMap::remove (the map part).
MapRemove(m, k) == [x \in (DOMAIN m) \ {k} |-> m[x]]

\* VecDeque::retain(|e| e.pid != pid)
RECURSIVE retain_not_pid(_, _)
retain_not_pid(q, pid) ==
    IF q = <<>> THEN <<>>
    ELSE IF Head(q).pid # pid
         THEN <<Head(q)>> \o retain_not_pid(Tail(q), pid)
         ELSE retain_not_pid(Tail(q), pid)

\* Limiter::new
LimiterNew(total) ==
    [total |-> total, free |-> total, active |-> <<>>, paused |-> <<>>,
     conts |-> <<>>]

\* Mutant of fits: no failsafe when nothing is active.
fits_without_failsafe(L, profile) == has_free_resources(profile, L.free)

\* Limiter::fits
fits(L, profile) ==
    IF has_free_resources(profile, L.free) THEN TRUE
    ELSE IF DOMAIN L.active = {} THEN TRUE
    ELSE FALSE

\* Limiter::admit
admit(L, pid, name, profile) ==
    [L EXCEPT !.free = Sub(@, profile),
              !.active = MapInsert(@, pid, ActiveEntry(name, profile))]

\* The Err arm of ptrace::cont in try_resume_paused: roll the admission back.
rollback(L, pid) ==
    IF pid \in DOMAIN L.active
    THEN [L EXCEPT !.free = Add(@, L.active[pid].profile),
                   !.active = MapRemove(@, pid)]
    ELSE L

\* Mutant of try_resume_paused: an `if` in place of the `while`, so that one
\* drain admits at most one queued entry.
try_resume_paused_once(L, fail) ==
    IF L.paused = <<>> THEN L
    ELSE LET front == Head(L.paused) IN
         IF ~fits(L, front.profile) THEN L
         ELSE LET popped == [L EXCEPT !.paused = Tail(@)]
                  admitted == admit(popped, front.pid, front.name, front.profile)
                  ok == front.pid \notin fail
                  conted == [admitted EXCEPT
                               !.conts = Append(@, [pid |-> front.pid, ok |-> ok])]
              IN IF ok THEN conted ELSE rollback(conted, front.pid)

\* Mutant of try_resume_paused: a head that does not fit is moved to the back
\* of the queue when a later entry fits.
RECURSIVE try_resume_paused_rotating(_, _)
try_resume_paused_rotating(L, fail) ==
    IF L.paused = <<>> THEN L
    ELSE LET front == Head(L.paused) IN
         IF ~fits(L, front.profile)
         THEN IF \E i \in 2..Len(L.paused) : fits(L, L.paused[i].profile)
              THEN try_resume_paused_rotating(
                       [L EXCEPT !.paused = Append(Tail(@), front)], fail)
              ELSE L
         ELSE LET popped == [L EXCEPT !.paused = Tail(@)]
                  admitted == admit(popped, front.pid, front.name, front.profile)
                  ok == front.pid \notin fail
                  conted == [admitted EXCEPT
                               !.conts = Append(@, [pid |-> front.pid, ok |-> ok])]
              IN IF ok
                 THEN try_resume_paused_rotating(conted, fail)
                 ELSE try_resume_paused_rotating(rollback(conted, front.pid), fail)

\* Limiter::try_resume_paused; ptrace::cont(pid) fails iff pid \in fail.
RECURSIVE try_resume_paused(_, _)
try_resume_paused(L, fail) ==
    IF L.paused = <<>> THEN L
    ELSE LET front == Head(L.paused) IN
         IF ~fits(L, front.profile) THEN L
         ELSE LET popped == [L EXCEPT !.paused = Tail(@)]
                  admitted == admit(popped, front.pid, front.name, front.profile)
                  ok == front.pid \notin fail
                  conted == [admitted EXCEPT
                               !.conts = Append(@, [pid |-> front.pid, ok |-> ok])]
              IN IF ok
                 THEN try_resume_paused(conted, fail)
                 ELSE try_resume_paused(rollback(conted, front.pid), fail)

\* Mutant of on_exec: a program without a profile is given the smallest
\* profile of the table instead of being passed through.
on_exec_default_profile(L, pid, args) ==
    LET p == profile_for(args)
        profile == IF p # None THEN p[1] ELSE new(1, 1)
        name == IF args # <<>> THEN args[1] ELSE "<unavailable>"
    IN IF fits(L, profile)
       THEN [L |-> admit(L, pid, name, profile), result |-> "Admitted"]
       ELSE [L |-> [L EXCEPT !.paused = Append(@, PausedEntry(pid, name, profile))],
             result |-> "Paused"]

\* Limiter::on_exec; returns the new limiter and the OnExecResult.
on_exec(L, pid, args) ==
    LET p == profile_for(args) IN
    IF p # None
    THEN LET profile == p[1]
             name == args[1]
         IN IF fits(L, profile)
            THEN [L |-> admit(L, pid, name, profile), result |-> "Admitted"]
            ELSE [L |-> [L EXCEPT !.paused = Append(@, PausedEntry(pid, name, profile))],
                  result |-> "Paused"]
    ELSE [L |-> L, result |-> "NotThrottled"]

\* Mutant of on_exit: the paused queue is not scrubbed of the exited pid.
on_exit_no_retain(L, pid, fail) ==
    IF pid \in DOMAIN L.active
    THEN try_resume_paused(
           [L EXCEPT !.free = Add(@, L.active[pid].profile),
                     !.active = MapRemove(@, pid)],
           fail)
    ELSE L

\* Limiter::on_exit
on_exit(L, pid, fail) ==
    LET released ==
          IF pid \in DOMAIN L.active
          THEN try_resume_paused(
                 [L EXCEPT !.free = Add(@, L.active[pid].profile),
                           !.active = MapRemove(@, pid)],
                 fail)
          ELSE L
    IN [released EXCEPT !.paused = retain_not_pid(@, pid)]

----------------------------------------------------------------------------
(* State.                                                                  *)

VARIABLES
    total,    \* Limiter.total
    free,     \* Limiter.free
    active,   \* Limiter.active
    paused,   \* Limiter.paused
    conts,    \* ptrace::cont calls made by the last call, in order
    call,     \* the last public call: its operation, pid and result
    seen,     \* number of distinct pids the kernel has reported so far
    exited,   \* the pids whose exit the kernel has reported
    traced,   \* Tracer.traced
    ev,       \* the last result of waitpid taken by the event loop
    sconts,   \* ptrace::cont calls made by the supervisor in the last handler
    ret,      \* "running" while main loops, then what main returned
    att,      \* the last run of attach_to_nix_daemons: inputs and result
    cls,      \* the last classification: argv, total and profile
    resolved  \* the last name resolution: the name's parts and the results

vars == <<total, free, active, paused, conts, call, seen, exited,
          traced, ev, sconts, ret, att, cls, resolved>>

\* The limiter value held in the variables, at the start of a call.
Lim == [total |-> total, free |-> free, active |-> active, paused |-> paused,
        conts |-> <<>>]

PausedPids(q) == { q[i].pid : i \in DOMAIN q }

\* No limiter call, no wait result, no attach run, no classification yet.
NoCall == [op |-> "none", pid |-> 0, result |-> "", was |-> "unknown"]

NoEvent == [kind |-> "none", pid |-> 0, event |-> "", sig |-> "",
            args |-> <<>>, errno |-> ""]

NoAttach == [found |-> [ok |-> TRUE, pids |-> <<>>], seize_ok |-> {},
             result |-> [ok |-> FALSE, attached |-> 0, seized |-> <<>>,
                         err |-> "not run"]]

NoClass == [args |-> <<>>, total |-> new(0, 0), profile |-> <<>>]

NoName == [dir |-> <<>>, dots |-> 0, base |-> <<>>, wraps |-> 0,
           name |-> <<>>, basename |-> <<>>]

\* Where a pid is in the limiter.
Where(pid) ==
    IF pid \in DOMAIN active
    THEN IF pid \in PausedPids(paused) THEN "both" ELSE "active"
    ELSE IF pid \in PausedPids(paused) THEN "queued" ELSE "unknown"

Init ==
    \E t \in Totals :
        /\ total = LimiterNew(t).total
        /\ free = LimiterNew(t).free
        /\ active = LimiterNew(t).active
        /\ paused = LimiterNew(t).paused
        /\ conts = <<>>
        /\ call = [op |-> "new", pid |-> 0, result |-> "",
                   was |-> "unknown"]
        /\ seen = 0
        /\ exited = {}
        /\ traced = {}
        /\ ev = NoEvent
        /\ sconts = <<>>
        /\ ret = "running"
        /\ att = NoAttach
        /\ cls = NoClass
        /\ resolved = NoName

\* Pids are interchangeable, so they are numbered in the order in which the
\* kernel first reports them: an event names a live pid already reported or
\* the next unused one.  The kernel reports one exit per process, and no
\* other event of a process after its exit.
Reported(pid) == pid <= seen + 1 /\ pid \notin exited

Report(pid) == IF pid > seen THEN pid ELSE seen

\* An exec event of pid reaches the limiter.  A queued tracee is stopped at
\* its exec stop and cannot exec again, so pid is not in the paused queue.
OnExec(pid, args) ==
    /\ Reported(pid)
    /\ pid \notin PausedPids(paused)
    /\ seen' = Report(pid)
    /\ exited' = exited
    /\ LET r == on_exec(Lim, pid, args) IN
         /\ total' = r.L.total
         /\ free' = r.L.free
         /\ active' = r.L.active
         /\ paused' = r.L.paused
         /\ conts' = r.L.conts
         /\ call' = [op |-> "on_exec", pid |-> pid,
                     result |-> r.result, was |-> Where(pid)]
    /\ UNCHANGED <<traced, ev, sconts, ret, att, cls, resolved>>

\* An exit of pid reaches the limiter; continues fail for the pids in fail.
\* Only queued pids are continued; the exited process no longer exists, so a
\* continue for it fails.
OnExit(pid, fail) ==
    /\ Reported(pid)
    /\ fail \subseteq PausedPids(paused)
    /\ pid \in PausedPids(paused) => pid \in fail
    /\ seen' = Report(pid)
    /\ exited' = exited \cup {pid}
    /\ LET r == on_exit(Lim, pid, fail) IN
        /\ total' = r.total
        /\ free' = r.free
        /\ active' = r.active
        /\ paused' = r.paused
        /\ conts' = r.conts
        /\ call' = [op |-> "on_exit", pid |-> pid,
                    result |-> "", was |-> Where(pid)]
    /\ UNCHANGED <<traced, ev, sconts, ret, att, cls, resolved>>

Next ==
    \/ \E pid \in Pids : \E args \in Argvs : OnExec(pid, args)
    \/ \E pid \in Pids : \E fail \in SUBSET PausedPids(paused) : OnExit(pid, fail)

Spec == Init /\ [][Next]_vars

----------------------------------------------------------------------------
(* The limiter under a steady load: pid numbers are reused, every process  *)
(* execs once, and every active process exits.                             *)

\* The kernel gives the number of an exited process to a new process.
Reuse(pid) ==
    /\ pid \in exited
    /\ exited' = exited \ {pid}
    /\ UNCHANGED <<total, free, active, paused, conts, call, seen,
                   traced, ev, sconts, ret, att, cls, resolved>>

\* The one exec of a process.
FirstExec(pid, args) == pid \notin DOMAIN active /\ OnExec(pid, args)

\* The exit of an active process, reported to the limiter.
ActiveExit(pid) ==
    /\ pid \in DOMAIN active
    /\ \E fail \in SUBSET PausedPids(paused) : OnExit(pid, fail)

\* The exit of a process that is not active.
OtherExit(pid) ==
    /\ pid \notin DOMAIN active
    /\ \E fail \in SUBSET PausedPids(paused) : OnExit(pid, fail)

LiveNext ==
    \/ \E pid \in Pids : \E args \in Argvs : FirstExec(pid, args)
    \/ \E pid \in Pids : ActiveExit(pid)
    \/ \E pid \in Pids : OtherExit(pid)
    \/ \E pid \in Pids : Reuse(pid)

\* Every active process eventually exits and its exit is reported.
ActiveExits == \A pid \in Pids : WF_vars(ActiveExit(pid))

LiveSpec == Init /\ [][LiveNext]_vars /\ ActiveExits

----------------------------------------------------------------------------
(* Supervisor: Tracer (src/src/tracer.rs).  A tracer value T is a record   *)
(*   traced  : set of pids                                                 *)
(*   limiter : a limiter value                                             *)
(*   sconts  : the ptrace::cont calls the handler has made so far          *)
(*   call    : the limiter call the handler has made, if any               *)

\* Signals of a signal-delivery-stop; SIGTERM stands for every signal other
\* than SIGTRAP and SIGSTOP.
Signals == { "SIGTRAP", "SIGSTOP", "SIGTERM" }

\* ptrace events; FORK stands for FORK, VFORK and CLONE (one match arm),
\* UNKNOWN for every event the match does not name.
Events == { "FORK", "EXEC", "STOP", "UNKNOWN" }

\* Number of tracees the supervisor's environment uses.
MaxTracees == 2

Tracees == 1..MaxTracees

\* argv values the supervisor's environment execs: one program of the rules
\* table, one outside it, and an empty argv.
TraceeArgvs == { <<>>, <<"cc">>, <<"bash">> }

\* What read_cmdline returns for an exec'ing tracee: None or Some(argv).
CmdLines == { None } \cup { Some(a) : a \in TraceeArgvs }

\* The signal injected after a signal-delivery-stop.
forward_same(sig) == Some(sig)

forward(sig) ==
    IF sig = "SIGTRAP" \/ sig = "SIGSTOP" THEN None ELSE Some(sig)

\* Limiter::is_rate_limited: the program has a profile in the rules table.
is_rate_limited(args) == profile_for(args) # None

allowed_never(result) == FALSE

\* The boolean the exec handler reads from on_exec: the pid was admitted.
allowed(result) == result = "Admitted"

TracerNew(t) == [traced |-> {}, limiter |-> LimiterNew(t)]

\* ptrace::cont(pid, sig) called by the supervisor; ok is its outcome.
cont(T, pid, sig, ok) ==
    [T EXCEPT !.sconts = Append(@, [pid |-> pid, sig |-> sig, ok |-> ok])]

\* The inputs of a handler, in: args (read_cmdline), child (getevent, None
\* on error), ok (outcome of the supervisor's continue), fail (the pids for
\* which a continue of the limiter fails).
handle_exec_always_cont(T, pid, in) ==
    IF in.args # None /\ is_rate_limited(in.args[1])
    THEN LET r == on_exec(T.limiter, pid, in.args[1])
         IN cont([T EXCEPT !.limiter = r.L,
                           !.call = [op |-> "on_exec", pid |-> pid,
                                     result |-> r.result, was |-> "unknown"]],
                 pid, None, in.ok)
    ELSE cont(T, pid, None, in.ok)

handle_exec_never_cont(T, pid, in) ==
    IF in.args # None /\ is_rate_limited(in.args[1])
    THEN LET r == on_exec(T.limiter, pid, in.args[1])
         IN [T EXCEPT !.limiter = r.L,
                      !.call = [op |-> "on_exec", pid |-> pid,
                                result |-> r.result, was |-> "unknown"]]
    ELSE T

handle_exec(T, pid, in) ==
    IF in.args # None /\ is_rate_limited(in.args[1])
    THEN LET r == on_exec(T.limiter, pid, in.args[1])
             T1 == [T EXCEPT !.limiter = r.L,
                             !.call = [op |-> "on_exec", pid |-> pid,
                                       result |-> r.result, was |-> "unknown"]]
         IN IF allowed(r.result) THEN cont(T1, pid, None, in.ok) ELSE T1
    ELSE cont(T, pid, None, in.ok)

handle_ptrace_event(T, pid, event, in) ==
    CASE event = "FORK" ->
           cont(IF in.child # None
                THEN [T EXCEPT !.traced = @ \cup {in.child[1]}]
                ELSE T,
                pid, None, in.ok)
      [] event = "EXEC" -> handle_exec(T, pid, in)
      [] event = "STOP" -> cont(T, pid, None, in.ok)
      [] OTHER -> cont(T, pid, None, in.ok)

tracee_gone(T, pid, in) ==
    [T EXCEPT !.traced = @ \ {pid},
              !.limiter = on_exit(@, pid, in.fail),
              !.call = [op |-> "on_exit", pid |-> pid, result |-> "",
                        was |-> "unknown"]]

handle_wait_status_exit_only(T, status, in) ==
    CASE status.kind = "PtraceEvent" ->
           handle_ptrace_event(T, status.pid, status.event, in)
      [] status.kind = "Stopped" ->
           cont(T, status.pid, forward(status.sig), in.ok)
      [] status.kind = "Exited" -> tracee_gone(T, status.pid, in)
      [] status.kind = "Signaled" -> [T EXCEPT !.traced = @ \ {status.pid}]
      [] OTHER -> cont(T, status.pid, None, in.ok)

handle_wait_status(T, status, in) ==
    CASE status.kind = "PtraceEvent" ->
           handle_ptrace_event(T, status.pid, status.event, in)
      [] status.kind = "Stopped" ->
           cont(T, status.pid, forward(status.sig), in.ok)
      [] status.kind = "Exited" -> tracee_gone(T, status.pid, in)
      [] status.kind = "Signaled" -> tracee_gone(T, status.pid, in)
      [] OTHER -> cont(T, status.pid, None, in.ok)

\* Event loop (src/src/main.rs): what main does after waitpid returned
\* Err(errno): "running" is `continue`; a `break` reaches Ok(()).
after_wait_error_eintr_breaks(errno) == "Ok"

after_wait_error(errno) ==
    CASE errno = "ECHILD" -> "Ok"
      [] errno = "EINTR" -> "running"
      [] OTHER -> "Ok"

\* Errors of waitpid; EINVAL stands for every errno other than the two the
\* loop names.
Errnos == { "ECHILD", "EINTR", "EINVAL" }

\* The process exit status of a finished main.
ExitStatus == IF ret = "Ok" THEN 0 ELSE 1

\* The tracer value held in the variables, at the start of a handler.
Trc == [traced |-> traced, limiter |-> Lim, sconts |-> <<>>, call |-> NoCall]

Status(kind, pid, event, sig) ==
    [kind |-> kind, pid |-> pid, event |-> event, sig |-> sig]

Inputs(args, child, ok, fail) ==
    [args |-> args, child |-> child, ok |-> ok, fail |-> fail]

\* waitpid returned Ok(status) and the loop ran handle_wait_status on it.
\* A tracee left stopped in the paused queue reports nothing but its death;
\* getevent names the next unused pid.
Handle(status, in) ==
    /\ ret = "running"
    /\ status.pid \in Tracees
    /\ Reported(status.pid)
    /\ status.kind \in {"Exited", "Signaled"}
         \/ status.pid \notin PausedPids(paused)
    /\ in.fail \subseteq PausedPids(paused)
    /\ status.pid \in PausedPids(paused) => status.pid \in in.fail
    /\ in.child # None =>
         in.child[1] = Report(status.pid) + 1 /\ in.child[1] \in Tracees
    /\ seen' = IF in.child # None THEN in.child[1] ELSE Report(status.pid)
    /\ exited' = IF status.kind \in {"Exited", "Signaled"}
                 THEN exited \cup {status.pid} ELSE exited
    /\ LET T == handle_wait_status(Trc, status, in) IN
         /\ total' = T.limiter.total
         /\ free' = T.limiter.free
         /\ active' = T.limiter.active
         /\ paused' = T.limiter.paused
         /\ conts' = T.limiter.conts
         /\ call' = [T.call EXCEPT !.was = Where(T.call.pid)]
         /\ traced' = T.traced
         /\ sconts' = T.sconts
    /\ ev' = [kind |-> status.kind, pid |-> status.pid,
              event |-> status.event, sig |-> status.sig,
              args |-> in.args, errno |-> ""]
    /\ UNCHANGED <<ret, att, cls, resolved>>

WaitFork(pid, child, ok) ==
    Handle(Status("PtraceEvent", pid, "FORK", ""), Inputs(None, child, ok, {}))

WaitExec(pid, args, ok) ==
    Handle(Status("PtraceEvent", pid, "EXEC", ""), Inputs(args, None, ok, {}))

WaitEvent(pid, event, ok) ==
    Handle(Status("PtraceEvent", pid, event, ""), Inputs(None, None, ok, {}))

WaitStopped(pid, sig, ok) ==
    Handle(Status("Stopped", pid, "", sig), Inputs(None, None, ok, {}))

WaitExit(pid, kind, fail) ==
    Handle(Status(kind, pid, "", ""), Inputs(None, None, TRUE, fail))

WaitOther(pid, ok) ==
    Handle(Status("Continued", pid, "", ""), Inputs(None, None, ok, {}))

\* waitpid returned Err(errno).  ECHILD needs every reported tracee gone.
WaitError(errno) ==
    /\ ret = "running"
    /\ errno = "ECHILD" => seen > 0 /\ \A p \in 1..seen : p \in exited
    /\ ret' = after_wait_error(errno)
    /\ ev' = [NoEvent EXCEPT !.kind = "Err", !.errno = errno]
    /\ conts' = <<>>
    /\ sconts' = <<>>
    /\ call' = NoCall
    /\ UNCHANGED <<total, free, active, paused, seen, exited, traced, att, cls,
                   resolved>>

SupNext ==
    \/ \E pid \in Tracees : \E child \in {None} \cup {Some(c) : c \in Tracees} :
         \E ok \in BOOLEAN : WaitFork(pid, child, ok)
    \/ \E pid \in Tracees : \E args \in CmdLines : \E ok \in BOOLEAN :
         WaitExec(pid, args, ok)
    \/ \E pid \in Tracees : \E event \in {"STOP", "UNKNOWN"} : \E ok \in BOOLEAN :
         WaitEvent(pid, event, ok)
    \/ \E pid \in Tracees : \E sig \in Signals : \E ok \in BOOLEAN :
         WaitStopped(pid, sig, ok)
    \/ \E pid \in Tracees : \E kind \in {"Exited", "Signaled"} :
         \E fail \in SUBSET PausedPids(paused) : WaitExit(pid, kind, fail)
    \/ \E pid \in Tracees : \E ok \in BOOLEAN : WaitOther(pid, ok)
    \/ \E errno \in Errnos : WaitError(errno)

SupSpec == Init /\ [][SupNext]_vars


----------------------------------------------------------------------------
(* Attach phase (src/src/daemon.rs).                                       *)

\* Number of nix-daemon processes find_nix_daemon_pids can discover.
MaxDaemons == 4

DaemonPids == 1..MaxDaemons

\* The pid lists find_nix_daemon_pids can return: no pid twice, any order.
DaemonLists ==
    { s \in UNION { [1..n -> DaemonPids] : n \in 0..MaxDaemons } :
        \A i, j \in DOMAIN s : i # j => s[i] # s[j] }

\* Result<usize>: Ok(attached) or Err(err); seized lists the pids on which
\* ptrace::seize was called, in order.
AttachOk(attached, seized) ==
    [ok |-> TRUE, attached |-> attached, seized |-> seized, err |-> ""]

AttachErr(err, seized) ==
    [ok |-> FALSE, attached |-> 0, seized |-> seized, err |-> err]

\* The for loop over daemon_pids; seize succeeds for the pids in seize_ok.
RECURSIVE seize_loop_stop_at_failure(_, _, _, _)
seize_loop_stop_at_failure(pids, seize_ok, attached, seized) ==
    IF pids = <<>> THEN [attached |-> attached, seized |-> seized]
    ELSE IF Head(pids) \in seize_ok
         THEN seize_loop_stop_at_failure(Tail(pids), seize_ok, attached + 1,
                                         Append(seized, Head(pids)))
         ELSE [attached |-> attached, seized |-> Append(seized, Head(pids))]

RECURSIVE seize_loop(_, _, _, _)
seize_loop(pids, seize_ok, attached, seized) ==
    IF pids = <<>> THEN [attached |-> attached, seized |-> seized]
    ELSE seize_loop(Tail(pids), seize_ok,
                    IF Head(pids) \in seize_ok THEN attached + 1 ELSE attached,
                    Append(seized, Head(pids)))

\* found is the result of find_nix_daemon_pids: ok and the pids.
attach_to_nix_daemons(found, seize_ok) ==
    IF ~found.ok THEN AttachErr("Failed to read /proc", <<>>)
    ELSE IF found.pids = <<>>
    THEN AttachErr("No nix-daemon processes found", <<>>)
    ELSE LET r == seize_loop(found.pids, seize_ok, 0, <<>>) IN
         IF r.attached = 0
         THEN AttachErr("Failed to attach to any nix-daemon process", r.seized)
         ELSE AttachOk(r.attached, r.seized)

\* attach_to_nix_daemons runs once, at startup.
Attach(found, seize_ok) ==
    /\ att = NoAttach
    /\ att' = [found |-> found, seize_ok |-> seize_ok,
               result |-> attach_to_nix_daemons(found, seize_ok)]
    /\ UNCHANGED <<total, free, active, paused, conts, call, seen, exited,
                   traced, ev, sconts, ret, cls, resolved>>

AttachNext ==
    \/ \E pids \in DaemonLists : \E seize_ok \in SUBSET DaemonPids :
         /\ seize_ok \subseteq { pids[i] : i \in DOMAIN pids }
         /\ Attach([ok |-> TRUE, pids |-> pids], seize_ok)
    \/ Attach([ok |-> FALSE, pids |-> <<>>], {})

AttachSpec == Init /\ [][AttachNext]_vars

----------------------------------------------------------------------------
(* Classification as on_exec performs it (src/src/limiter.rs 62-67).       *)

\* argv[0] values of the rules table.
RulesNames ==
    { "cc", "gcc", "g++", "c++", "clang", "clang++", "rustc", "llc", "lld",
      "ld.lld", "ld", "gold", "go", "ghc", "java", "javac", "scalac",
      "kotlinc", "nvcc", "ptxas", "cicc", "cudafe++", "fatbinary" }

\* argv[0] values: the rules table and names outside it.
ClassNames == RulesNames \cup { "bash", "make", "nix-daemon", "CC", "" }

\* argv values: empty, a name alone, a name followed by an argument that
\* is itself a name of the rules table.
ClassArgvs ==
    { <<>> } \cup { <<n>> : n \in ClassNames }
             \cup { <<n, "cc">> : n \in ClassNames }

\* The profile a limiter with the given total charges for args: the profile
\* of the entry on_exec makes, None when it makes none.
classify_clamped(t, args) ==
    LET r == on_exec(LimiterNew(t), 1, args) IN
    IF r.result = "NotThrottled" THEN None
    ELSE LET p == r.L.active[1].profile IN
         Some(new(IF p.cpus < t.cpus THEN p.cpus ELSE t.cpus,
                  IF p.mem_gb < t.mem_gb THEN p.mem_gb ELSE t.mem_gb))

classify(t, args) ==
    LET r == on_exec(LimiterNew(t), 1, args) IN
    CASE r.result = "Admitted" -> Some(r.L.active[1].profile)
      [] r.result = "Paused" -> Some(r.L.paused[1].profile)
      [] OTHER -> None

Classify(t, args) ==
    /\ cls' = [args |-> args, total |-> t, profile |-> classify(t, args)]
    /\ UNCHANGED <<total, free, active, paused, conts, call, seen, exited,
                   traced, ev, sconts, ret, att, resolved>>

ClassifyNext == \E t \in Totals : \E args \in ClassArgvs : Classify(t, args)

ClassifySpec == Init /\ [][ClassifyNext]_vars

----------------------------------------------------------------------------
(* Name resolver (src/src/nixutil.rs).  A name is the sequence of its      *)
(* characters.                                                             *)

\* Largest number of leading dots, and of trailing "-wrapped", of a name.
MaxDots == 3

MaxWraps == 3

WrappedSuffix == << "-", "w", "r", "a", "p", "p", "e", "d" >>

\* str::strip_suffix and str::strip_prefix: Some(rest) or None.
strip_suffix(s, suffix) ==
    IF Len(s) >= Len(suffix)
         /\ SubSeq(s, Len(s) - Len(suffix) + 1, Len(s)) = suffix
    THEN Some(SubSeq(s, 1, Len(s) - Len(suffix)))
    ELSE None

strip_prefix(s, c) ==
    IF Len(s) >= 1 /\ s[1] = c THEN Some(Tail(s)) ELSE None

unwrap_nix_name_once(name) ==
    LET stripped == strip_suffix(name, WrappedSuffix) IN
    IF stripped = None THEN name
    ELSE LET inner == strip_prefix(stripped[1], ".") IN
         IF inner = None THEN name ELSE inner[1]

RECURSIVE unwrap_nix_name(_)
unwrap_nix_name(name) ==
    LET stripped == strip_suffix(name, WrappedSuffix) IN
    IF stripped = None THEN name
    ELSE LET inner == strip_prefix(stripped[1], ".") IN
         IF inner = None THEN name ELSE unwrap_nix_name(inner[1])

\* path.rsplit('/').next(): the text after the last '/', the whole path when
\* it has none.
rsplit_next(path) ==
    LET at == { i \in DOMAIN path : path[i] = "/" } IN
    IF at = {} THEN path
    ELSE SubSeq(path, (CHOOSE i \in at : \A j \in at : j <= i) + 1, Len(path))

resolve_basename(path) == unwrap_nix_name(rsplit_next(path))

\* The names the environment resolves: dots leading dots, a base, wraps
\* trailing "-wrapped", after a directory part that is empty or ends in '/'.
RECURSIVE Repeat(_, _)
Repeat(s, n) == IF n = 0 THEN <<>> ELSE s \o Repeat(s, n - 1)

WrappedName(dots, base, wraps) ==
    Repeat(<<".">>, dots) \o base \o Repeat(WrappedSuffix, wraps)

\* "", "gcc", "hidden-file", "wrapped", "-wrappeds": none starts with a dot
\* or ends with "-wrapped".
Bases ==
    { <<>>,
      << "g", "c", "c" >>,
      << "h", "i", "d", "d", "e", "n", "-", "f", "i", "l", "e" >>,
      << "w", "r", "a", "p", "p", "e", "d" >>,
      << "-", "w", "r", "a", "p", "p", "e", "d", "s" >> }

\* "", "bin/", "/usr/bin/", "/.a-wrapped/".
Dirs ==
    { <<>>,
      << "b", "i", "n", "/" >>,
      << "/", "u", "s", "r", "/", "b", "i", "n", "/" >>,
      << "/", ".", "a" >> \o WrappedSuffix \o << "/" >> }

Resolve(dir, dots, base, wraps) ==
    /\ resolved' = [dir |-> dir, dots |-> dots, base |-> base, wraps |-> wraps,
                    name |-> unwrap_nix_name(WrappedName(dots, base, wraps)),
                    basename |->
                        resolve_basename(dir \o WrappedName(dots, base, wraps))]
    /\ UNCHANGED <<total, free, active, paused, conts, call, seen, exited,
                   traced, ev, sconts, ret, att, cls>>

ResolveNext ==
    \E dir \in Dirs : \E dots \in 0..MaxDots : \E base \in Bases :
        \E wraps \in 0..MaxWraps : Resolve(dir, dots, base, wraps)

ResolveSpec == Init /\ [][ResolveNext]_vars

----------------------------------------------------------------------------
(* Quantities the properties below are stated in.                          *)

\* Sum of one component of the profiles held by the entries of an active map.
RECURSIVE HeldCpus(_)
HeldCpus(a) ==
    IF DOMAIN a = {} THEN 0
    ELSE LET k == CHOOSE x \in DOMAIN a : TRUE
         IN a[k].profile.cpus + HeldCpus(MapRemove(a, k))

RECURSIVE HeldMem(_)
HeldMem(a) ==
    IF DOMAIN a = {} THEN 0
    ELSE LET k == CHOOSE x \in DOMAIN a : TRUE
         IN a[k].profile.mem_gb + HeldMem(MapRemove(a, k))

\* The budget left as a signed quantity: total minus what the active entries hold.
SignedFreeCpus == total.cpus - HeldCpus(active)

SignedFreeMem == total.mem_gb - HeldMem(active)

Throttled(args) == args # <<>> /\ args[1] \in RulesNames

\* Componentwise p <= f.
LeqBoth(p, f) == p.cpus <= f.cpus /\ p.mem_gb <= f.mem_gb

----------------------------------------------------------------------------
(* C1 -- Budget conservation: after every call,                            *)
(* free + (sum of the profiles of the active entries) = total on both      *)
(* dimensions, free being signed.                                          *)
BudgetConservation ==
    /\ free.cpus + HeldCpus(active) = total.cpus
    /\ free.mem_gb + HeldMem(active) = total.mem_gb

(* C2 -- Disjointness: after every call no pid is both a key of active and *)
(* the pid of an entry of the paused queue.                                *)
Disjointness == DOMAIN active \cap PausedPids(paused) = {}

(* C3 -- No queue jumping on arrival: an on_exec for a throttled program   *)
(* while the paused queue is non-empty puts the new process at the tail of *)
(* the queue and admits nothing, even if its profile fits in free.  Stated *)
(* for a pid new to the limiter, while no pid is both active and queued.   *)
NoQueueJumping ==
    [][\A pid \in Pids : \A args \in Argvs :
         (/\ call'.op = "on_exec" /\ call'.pid = pid
          /\ Throttled(args) /\ paused # <<>>
          /\ Disjointness /\ pid \notin DOMAIN active
          /\ OnExec(pid, args))
         => /\ call'.result = "Paused"
            /\ active' = active
            /\ paused' = Append(paused, PausedEntry(pid, args[1], profile_for(args)[1]))
      ]_vars

(* C4 -- Force-admit: an on_exec for a throttled program whose profile     *)
(* does not fit in free while the active set is empty admits the process,  *)
(* leaves exactly that one active entry, and free = total - profile with   *)
(* the deficit kept as negative components.                                *)
ForceAdmitKeepsDeficit ==
    [][\A pid \in Pids : \A args \in Argvs :
         (/\ call'.op = "on_exec" /\ call'.pid = pid
          /\ Throttled(args)
          /\ DOMAIN active = {}
          /\ ~LeqBoth(profile_for(args)[1], free)
          /\ OnExec(pid, args))
         => /\ call'.result = "Admitted"
            /\ DOMAIN active' = {pid}
            /\ free'.cpus = total.cpus - profile_for(args)[1].cpus
            /\ free'.mem_gb = total.mem_gb - profile_for(args)[1].mem_gb
      ]_vars

\* The single active process holds more than the total budget: it was force-admitted.
ForceAdmitted(pid) ==
    /\ DOMAIN active = {pid}
    /\ ~LeqBoth(active[pid].profile, total)

(* C5 -- Force-admit, then queue, then drain: while a force-admitted       *)
(* process is active every further throttled on_exec is queued; when it    *)
(* exits and the continue succeeds the head of the queue is admitted (by   *)
(* force-admit if it still exceeds the budget) and continued, and then     *)
(* free = total - (the head's profile), negative components kept: total    *)
(* (1,1) and two rustc give active = {second}, paused empty, free (-3,-3). *)
ForceAdmitThenDrain ==
    [][/\ \A pid \in Pids : \A args \in Argvs :
            (/\ call'.op = "on_exec" /\ call'.pid = pid
             /\ Throttled(args)
             /\ \E p \in Pids \ {pid} : ForceAdmitted(p)
             /\ OnExec(pid, args))
            => /\ call'.result = "Paused"
               /\ active' = active
               /\ paused' = Append(paused, PausedEntry(pid, args[1], profile_for(args)[1]))
       /\ \A pid \in Pids :
            (/\ call'.op = "on_exit" /\ call'.pid = pid
             /\ pid \in DOMAIN active
             /\ ForceAdmitted(pid)
             /\ paused # <<>>
             /\ ~LeqBoth(Head(paused).profile, total)
             /\ OnExit(pid, {}))
            => /\ DOMAIN active' = {Head(paused).pid}
               /\ conts' = << [pid |-> Head(paused).pid, ok |-> TRUE] >>
               /\ paused' = Tail(paused)
               /\ free'.cpus = total.cpus - Head(paused).profile.cpus
               /\ free'.mem_gb = total.mem_gb - Head(paused).profile.mem_gb
      ]_vars

----------------------------------------------------------------------------
(* The drain as on_exit of an active pid should perform it, stated over    *)
(* the queue before the call.                                              *)

RECURSIVE PrefixCpus(_, _)
PrefixCpus(q, k) == IF k = 0 THEN 0 ELSE q[k].profile.cpus + PrefixCpus(q, k - 1)

RECURSIVE PrefixMem(_, _)
PrefixMem(q, k) == IF k = 0 THEN 0 ELSE q[k].profile.mem_gb + PrefixMem(q, k - 1)

\* The free budget once the exited pid's profile is back.
FreeReleased(pid) ==
    [cpus   |-> free.cpus + active[pid].profile.cpus,
     mem_gb |-> free.mem_gb + active[pid].profile.mem_gb]

\* Entry i of the queue fits once the exited pid has released its profile
\* and entries 1..i-1 have been admitted: componentwise in what is left, or
\* by force-admit when nothing is active.
FitsInDrain(pid, i) ==
    \/ /\ paused[i].profile.cpus <= FreeReleased(pid).cpus - PrefixCpus(paused, i - 1)
       /\ paused[i].profile.mem_gb <= FreeReleased(pid).mem_gb - PrefixMem(paused, i - 1)
    \/ i = 1 /\ DOMAIN active = {pid}

(* C7 -- Drain on exit: on_exit of an active pid adds its profile back to  *)
(* free, removes it from active and, continues succeeding, admits queued   *)
(* entries from the head, one after another, as long as each fits in what  *)
(* the previous admissions left, with one continue per admitted pid, and   *)
(* stops at the first head that does not fit; the entries behind it stay   *)
(* queued in their order (less an entry of the exited pid itself).         *)
DrainOnExit ==
    [][\A pid \in Pids :
         (/\ call'.op = "on_exit" /\ call'.pid = pid
          /\ pid \in DOMAIN active
          /\ \A i \in DOMAIN conts' : conts'[i].ok)
         => LET k == Len(conts')
                admitted == { paused[i].pid : i \in 1..k }
            IN /\ k <= Len(paused)
               /\ \A i \in 1..k :
                    /\ conts'[i] = [pid |-> paused[i].pid, ok |-> TRUE]
                    /\ FitsInDrain(pid, i)
                    /\ active'[paused[i].pid] =
                         ActiveEntry(paused[i].name, paused[i].profile)
               /\ k < Len(paused) => ~FitsInDrain(pid, k + 1)
               /\ DOMAIN active' = (DOMAIN active \ {pid}) \cup admitted
               /\ \A x \in (DOMAIN active \ {pid}) \ admitted : active'[x] = active[x]
               /\ paused' = SelectSeq(SubSeq(paused, k + 1, Len(paused)),
                                       LAMBDA e : e.pid # pid)
               /\ (\A i \in 1..k : LeqBoth(paused[i].profile, FreeReleased(pid)))
                  => /\ free'.cpus = FreeReleased(pid).cpus - PrefixCpus(paused, k)
                     /\ free'.mem_gb = FreeReleased(pid).mem_gb - PrefixMem(paused, k)
      ]_vars

\* An exit of an active pid admitted the head of the queue, continued it,
\* and stopped at the next entry, which stays queued.
DrainOnExitWitness ==
    /\ call.op = "on_exit"
    /\ call.was = "active"
    /\ total = new(1, 1)
    /\ conts = << [pid |-> 2, ok |-> TRUE] >>
    /\ DOMAIN active = {2}
    /\ active[2] = ActiveEntry("cc", new(1, 1))
    /\ paused = << PausedEntry(3, "cc", new(1, 1)) >>
    /\ free = new(0, 0)

(* C8 -- Rollback on continue failure: when every continue issued during   *)
(* the drain of an on_exit fails, each such pid is out of active and out   *)
(* of the queue and its profile is back in free: free and active are what  *)
(* the release of the exited pid alone makes them.  Stated for calls made  *)
(* while no pid is both active and queued.                                 *)
RollbackRestores ==
    [][\A pid \in Pids :
         (/\ call'.op = "on_exit" /\ call'.pid = pid
          /\ pid \in DOMAIN active
          /\ Disjointness
          /\ OnExit(pid, PausedPids(paused)))
         => /\ free' = FreeReleased(pid)
            /\ DOMAIN active' = DOMAIN active \ {pid}
            /\ \A x \in DOMAIN active' : active'[x] = active[x]
            /\ \A i \in DOMAIN conts' :
                 /\ ~conts'[i].ok
                 /\ conts'[i].pid \notin PausedPids(paused')
      ]_vars

(* C9 -- on_exit of a pid that is not active: an unknown pid changes       *)
(* nothing; a queued pid loses exactly its queue entry, the other entries  *)
(* keep their order, active and free are unchanged, no continue is issued. *)
ExitOfInactivePid ==
    [][\A pid \in Pids :
         (/\ call'.op = "on_exit" /\ call'.pid = pid
          /\ pid \notin DOMAIN active)
         => /\ total' = total
            /\ free' = free
            /\ active' = active
            /\ conts' = <<>>
            /\ paused' = SelectSeq(paused, LAMBDA e : e.pid # pid)
            /\ pid \notin PausedPids(paused) => paused' = paused
      ]_vars

\* A queued pid has exited while another entry was queued and a process active.
ExitOfQueuedWitness ==
    /\ call.op = "on_exit"
    /\ call.was = "queued"
    /\ paused # <<>>
    /\ DOMAIN active # {}

(* C10 -- on_exec with an argv that is empty or whose program is not in    *)
(* the rules table returns NotThrottled and leaves total, free, active and *)
(* paused as they were, in any limiter state.                              *)
NotThrottledNoChange ==
    [][\A pid \in Pids : \A args \in Argvs :
         (/\ call'.op = "on_exec" /\ call'.pid = pid
          /\ ~Throttled(args)
          /\ OnExec(pid, args))
         => /\ call'.result = "NotThrottled"
            /\ UNCHANGED <<total, free, active, paused>>
            /\ conts' = <<>>
      ]_vars

\* An unthrottled exec was passed through while processes were active and queued.
NotThrottledWitness ==
    /\ call.op = "on_exec"
    /\ call.result = "NotThrottled"
    /\ DOMAIN active # {}
    /\ paused # <<>>

----------------------------------------------------------------------------
(* Properties of the supervisor.                                           *)

IsExecEvent == ev.kind = "PtraceEvent" /\ ev.event = "EXEC"

\* The continues the supervisor and the limiter issued for pid in a step.
SupConts(s, pid) == Len(SelectSeq(s, LAMBDA c : c.pid = pid))

\* C11: an exec event whose program is not in the rules table, or whose argv
\* cannot be read, is answered by the exec handler with one continue for that
\* tracee, without a signal, and leaves the tracee out of the paused queue.
UnthrottledExecResumed ==
    (IsExecEvent /\ (ev.args = None \/ ~Throttled(ev.args[1])))
    => /\ Len(sconts) = 1
       /\ sconts[1].pid = ev.pid
       /\ sconts[1].sig = None
       /\ ev.pid \notin PausedPids(paused)

\* An exec with unreadable argv, handled while another tracee is queued.
UnthrottledExecWitness ==
    /\ IsExecEvent
    /\ ev.args = None
    /\ paused # <<>>
    /\ sconts = << [pid |-> ev.pid, sig |-> None, ok |-> TRUE] >>

\* C12: a tracee that is in the paused queue when a handler returns was issued
\* no continue by that handler, neither by the supervisor nor by the limiter:
\* from the handler that queues it to the handler that takes it out of the
\* queue, every handler leaves it stopped.
QueuedStaysStopped ==
    \A pid \in PausedPids(paused) :
        SupConts(sconts, pid) = 0 /\ SupConts(conts, pid) = 0

\* A signal-delivery-stop of a running tracee handled, and answered with a
\* continue, while another tracee is queued.
QueuedStaysStoppedWitness ==
    /\ ev.kind = "Stopped"
    /\ Len(sconts) = 1
    /\ paused # <<>>
    /\ paused[1].pid # ev.pid

ExitReleasesSlot ==
    [][\A pid \in Tracees :
         (ev'.kind \in {"Exited", "Signaled"} /\ ev'.pid = pid)
         => /\ pid \notin DOMAIN active'
            /\ pid \notin PausedPids(paused')
            /\ (pid \in DOMAIN active /\ conts' = <<>>)
                 => free' = Add(free, active[pid].profile)
            /\ pid \notin DOMAIN active => free' = free
      ]_vars

\* A signal-kill of an active tracee, released with nothing to drain.
ExitReleasesSlotWitness ==
    /\ ev.kind = "Signaled"
    /\ call.op = "on_exit"
    /\ call.was = "active"
    /\ conts = <<>>
    /\ free = total
    /\ active = <<>>

\* C15: a tracee for which a continue of the supervisor failed in the last
\* handler holds no budget when the handler returns: it is not active.
ContFailureReleases ==
    \A i \in DOMAIN sconts :
        ~sconts[i].ok => sconts[i].pid \notin DOMAIN active

\* C16: when main has returned, the exit status is 0 exactly when the loop
\* ended on waitpid reporting that no child remains.
ExitStatusTellsWhy ==
    ret # "running" => (ExitStatus = 0 <=> ev.errno = "ECHILD")

\* C17: a waitpid interrupted by a signal leaves main in its loop and changes
\* neither the tracer nor the limiter; the loop ends only in a step in which
\* waitpid returned ECHILD or an error other than EINTR.
InterruptedWaitRestarts ==
    [][/\ (ev'.kind = "Err" /\ ev'.errno = "EINTR")
            => /\ ret' = "running"
               /\ UNCHANGED <<total, free, active, paused, traced>>
       /\ (ret = "running" /\ ret' # "running")
            => /\ ev'.kind = "Err"
               /\ ev'.errno \in {"ECHILD", "EINVAL"}
      ]_vars

\* An interrupted wait taken while a tracee is active and another is queued.
InterruptedWaitWitness ==
    /\ ev.kind = "Err"
    /\ ev.errno = "EINTR"
    /\ ret = "running"
    /\ active # <<>>
    /\ paused # <<>>

----------------------------------------------------------------------------
(* Properties of the attach phase and of the classifier.                   *)

\* The discovered pids of the last attach run, as a set.
Discovered == { att.found.pids[i] : i \in DOMAIN att.found.pids }

\* C18: when discovery succeeded, seize was called on every discovered pid,
\* in order; attach failed exactly when no pid was discovered or no seize
\* succeeded; otherwise it returned the number of seizes that succeeded.
AttachCounts ==
    att.found.ok
    => /\ att.result.seized = att.found.pids
       /\ ~att.result.ok <=> (Discovered = {} \/ Discovered \cap att.seize_ok = {})
       /\ att.result.ok
            => att.result.attached = Cardinality(Discovered \cap att.seize_ok)

\* Three daemons found; the first seize fails, the other two succeed.
AttachCountsWitness ==
    /\ Len(att.found.pids) = 3
    /\ att.found.pids[1] \notin att.seize_ok
    /\ att.found.pids[2] \in att.seize_ok
    /\ att.found.pids[3] \in att.seize_ok
    /\ att.result = AttachOk(2, att.found.pids)

\* C19: a signal-delivery-stop is answered with exactly one continue, for the
\* stopped tracee: without a signal when the signal is SIGTRAP or SIGSTOP,
\* with the same signal otherwise; the handler calls no limiter operation and
\* leaves the limiter as it was.
SignalStopForwarded ==
    [][ev'.kind = "Stopped"
       => /\ Len(sconts') = 1
          /\ sconts'[1].pid = ev'.pid
          /\ ev'.sig \in {"SIGTRAP", "SIGSTOP"} => sconts'[1].sig = None
          /\ ev'.sig \notin {"SIGTRAP", "SIGSTOP"}
               => sconts'[1].sig = Some(ev'.sig)
          /\ conts' = <<>>
          /\ call' = NoCall
          /\ UNCHANGED <<total, free, active, paused>>
      ]_vars

\* A SIGTERM stop of a tracee, forwarded, while a tracee is active.
SignalStopForwardedWitness ==
    /\ ev.kind = "Stopped"
    /\ ev.sig = "SIGTERM"
    /\ sconts = << [pid |-> ev.pid, sig |-> Some("SIGTERM"), ok |-> TRUE] >>
    /\ active # <<>>

----------------------------------------------------------------------------
(* Properties of the name resolver.                                        *)

\* The number of matched pairs of a name.
MatchedPairs(dots, wraps) == IF dots < wraps THEN dots ELSE wraps

\* C21: for a name of k leading dots, a base and m trailing "-wrapped",
\* unwrap_nix_name removes min(k, m) dots and as many "-wrapped", one pair at
\* a time, and nothing once either side no longer matches; resolve_basename
\* gives the same for the text after the last '/' of a path.
UnwrapMatchedPairs ==
    LET n == MatchedPairs(resolved.dots, resolved.wraps) IN
    /\ resolved.name = WrappedName(resolved.dots - n, resolved.base,
                                   resolved.wraps - n)
    /\ resolved.basename = resolved.name

\* "/usr/bin/.gcc-wrapped-wrapped" resolves to "gcc-wrapped".
UnwrapMatchedPairsWitness ==
    /\ resolved.dir = << "/", "u", "s", "r", "/", "b", "i", "n", "/" >>
    /\ resolved.dots = 1
    /\ resolved.base = << "g", "c", "c" >>
    /\ resolved.wraps = 2
    /\ resolved.basename = << "g", "c", "c" >> \o WrappedSuffix

----------------------------------------------------------------------------
(* Properties of the queue discipline.                                     *)

\* The limiter value after a step.
LimAfter == [total |-> total', free |-> free', active |-> active',
             paused |-> paused', conts |-> <<>>]

\* C22: an on_exit continues the first k queued pids, in queue order, for some
\* k; when it drained, the entry after them, if any, does not fit at the end
\* of the call, whatever later entries would; what stays queued is the rest
\* of the queue in its old order (without the exiting pid).  An on_exec
\* continues nobody and at most appends one entry, for its pid, at the back.
FifoDrain ==
    [][/\ call'.op = "on_exit"
            => \E k \in 0..Len(paused) :
                 /\ Len(conts') = k
                 /\ \A i \in 1..k : conts'[i].pid = paused[i].pid
                 /\ paused' = SelectSeq(SubSeq(paused, k + 1, Len(paused)),
                                        LAMBDA e : e.pid # call'.pid)
                 /\ (call'.was \in {"active", "both"} /\ k < Len(paused))
                      => ~fits(LimAfter, paused[k + 1].profile)
       /\ call'.op = "on_exec"
            => /\ conts' = <<>>
               /\ \/ paused' = paused
                  \/ /\ Len(paused') = Len(paused) + 1
                     /\ SubSeq(paused', 1, Len(paused)) = paused
                     /\ paused'[Len(paused')].pid = call'.pid
      ]_vars

\* A drain that stopped at a head that does not fit although the entry
\* behind it is within free.
FifoDrainWitness ==
    /\ call.op = "on_exit"
    /\ call.was \in {"active", "both"}
    /\ Len(paused) >= 2
    /\ ~fits(Lim, paused[1].profile)
    /\ LeqBoth(paused[2].profile, free)

\* C23: after every call, a non-empty paused queue has a head that does not
\* fit: its profile is not within free and some pid is active.
HeadDoesNotFit ==
    paused # <<>> => ~fits(Lim, Head(paused).profile)

\* C24: after every call, a non-empty paused queue comes with a non-empty
\* active set.
NoStrandedQueue ==
    paused # <<>> => DOMAIN active # {}

\* A drain in which a continue failed and was rolled back, leaving a queue
\* behind an active tracee.
NoStrandedQueueWitness ==
    /\ call.op = "on_exit"
    /\ \E i \in DOMAIN conts : ~conts[i].ok
    /\ paused # <<>>
    /\ DOMAIN active # {}
    /\ Disjointness

\* C26: an on_exec of a throttled program for a pid that is already active
\* does not queue the pid and loses nothing from the accounting: free plus the
\* profiles held by the active entries is what it was before the call.
RepeatedExecKeepsOneSlot ==
    [][\A pid \in Pids :
         (/\ call'.op = "on_exec"
          /\ call'.pid = pid
          /\ call'.was = "active"
          /\ call'.result # "NotThrottled")
         => /\ pid \notin PausedPids(paused')
            /\ free'.cpus + HeldCpus(active') = free.cpus + HeldCpus(active)
            /\ free'.mem_gb + HeldMem(active') = free.mem_gb + HeldMem(active)
      ]_vars

----------------------------------------------------------------------------
(* Progress of the queue.                                                  *)

\* C25: when every active process eventually exits, every queued pid
\* eventually leaves the queue: admitted by a drain or removed by its exit.
\* Stated for the runs in which the accounting stays exact (C1) and no pid is
\* both active and queued (C2), so that a run that refutes it owes nothing
\* to those.
QueuedEventuallyRuns ==
    \A pid \in Pids :
        (pid \in PausedPids(paused) /\ BudgetConservation /\ Disjointness)
        ~> (pid \notin PausedPids(paused)
            \/ ~BudgetConservation \/ ~Disjointness)

====
